---- MODULE Spec2Model ----
(***************************************************************************)
(* Model of netlify/functions/extract-transcript.js: the two variants of   *)
(* the transcript handler (Innertube API, yt-dlp downloader) and the pure  *)
(* helpers they call.                                                      *)
(*                                                                         *)
(* JavaScript strings are sequences of one-character strings, so that      *)
(* trim, split, startsWith, includes and the regular expressions are       *)
(* computed character by character.  The JavaScript value undefined of a   *)
(* string-valued field is the one-element sequence Undefined.              *)
(***************************************************************************)
EXTENDS Integers, Sequences, FiniteSets, TLC

VARIABLES
    fn,      \* pure-function harness: the function under evaluation
    arg,     \* its argument
    ret,     \* its return value
    called,  \* whether the function has been applied
    clock,   \* Date.now() of the process, in milliseconds
    dirs,    \* the file system under /tmp: directory name -> set of files
    req      \* per invocation of exports.handler: its position and data

vars == <<fn, arg, ret, called, clock, dirs, req>>

-----------------------------------------------------------------------------
(* Bounds *)

MaxTracks == 3
MaxLines == 4
MaxEvents == 2
MaxClock == 2

-----------------------------------------------------------------------------
(* JavaScript string primitives *)

Undefined == <<"undefined">>

IsWhitespace(c) == c \in {" ", "\t", "\r", "\n"}

RECURSIVE trimStart(_)
trimStart(s) ==
    IF s # <<>> /\ IsWhitespace(Head(s)) THEN trimStart(Tail(s)) ELSE s

RECURSIVE trimEnd(_)
trimEnd(s) ==
    IF s # <<>> /\ IsWhitespace(s[Len(s)])
    THEN trimEnd(SubSeq(s, 1, Len(s) - 1)) ELSE s

trim(s) == trimEnd(trimStart(s))

startsWithAt(s, p, i) ==
    /\ i >= 1
    /\ i + Len(p) - 1 <= Len(s)
    /\ SubSeq(s, i, i + Len(p) - 1) = p

startsWith(s, p) == startsWithAt(s, p, 1)

endsWith(s, p) == Len(s) >= Len(p) /\ startsWithAt(s, p, Len(s) - Len(p) + 1)

\* String.prototype.indexOf, 1-based; 0 when p does not occur in s
indexOf(s, p) ==
    LET hits == {i \in 1..(Len(s) + 1) : startsWithAt(s, p, i)}
    IN  IF hits = {} THEN 0 ELSE CHOOSE i \in hits : \A j \in hits : i <= j

includes(s, p) == indexOf(s, p) # 0

drop(s, n) == SubSeq(s, n + 1, Len(s))

\* String.prototype.split(sep): the list of pieces between occurrences of sep
RECURSIVE split(_, _)
split(s, sep) ==
    LET i == indexOf(s, sep)
    IN  IF i = 0 THEN <<s>>
        ELSE <<SubSeq(s, 1, i - 1)>> \o split(drop(s, i + Len(sep) - 1), sep)

\* Array.prototype.join
RECURSIVE join(_, _)
join(parts, sep) ==
    IF parts = <<>> THEN <<>>
    ELSE IF Len(parts) = 1 THEN parts[1]
    ELSE parts[1] \o sep \o join(Tail(parts), sep)

Digit(d) == <<"0", "1", "2", "3", "4", "5", "6", "7", "8", "9">>[d + 1]

\* Number.prototype.toString of a non-negative integer
RECURSIVE toString(_)
toString(n) ==
    IF n < 10 THEN <<Digit(n)>> ELSE toString(n \div 10) \o <<Digit(n % 10)>>

\* String.prototype.padStart(len, '0')
RECURSIVE padStart(_, _)
padStart(s, len) == IF Len(s) >= len THEN s ELSE padStart(<<"0">> \o s, len)

-----------------------------------------------------------------------------
(* findEnglishTrack *)

NoTrack == [languageCode |-> Undefined, kind |-> "undefined", baseUrl |-> "undefined"]

en == <<"e", "n">>

\* Array.prototype.find: the first of the elements at the indices hits (those
\* satisfying the callback), undef when there is none
find(array, hits, undef) ==
    IF hits = {} THEN undef
    ELSE array[CHOOSE i \in hits : \A j \in hits : i <= j]

\* The first pass without the test of kind
isManualEnAnyKind(track) == track.languageCode = en

isManualEn(track) == track.languageCode = en /\ track.kind # "asr"
isAsrEn(track) == track.languageCode = en /\ track.kind = "asr"
isAnyEn(track) ==
    IF track.languageCode = Undefined THEN FALSE
    ELSE startsWith(track.languageCode, en)

findEnglishTrack(captionTracks) ==
    LET at     == DOMAIN captionTracks
        manual == find(captionTracks, {i \in at : isManualEn(captionTracks[i])}, NoTrack)
        asr    == IF manual = NoTrack
                  THEN find(captionTracks, {i \in at : isAsrEn(captionTracks[i])}, NoTrack)
                  ELSE manual
    IN  IF asr = NoTrack
        THEN find(captionTracks, {i \in at : isAnyEn(captionTracks[i])}, NoTrack)
        ELSE asr

-----------------------------------------------------------------------------
(* parseTranscriptData and formatTimestamp *)

\* Minutes not reduced modulo the hour
formatTimestampTotalMinutes(startTimeMs) ==
    LET totalSeconds == startTimeMs \div 1000
        hours        == totalSeconds \div 3600
        minutes      == totalSeconds \div 60
        seconds      == totalSeconds % 60
    IN  IF hours > 0
        THEN toString(hours) \o <<":">> \o padStart(toString(minutes), 2)
                 \o <<":">> \o padStart(toString(seconds), 2)
        ELSE toString(minutes) \o <<":">> \o padStart(toString(seconds), 2)

formatTimestamp(startTimeMs) ==
    LET totalSeconds == startTimeMs \div 1000
        hours        == totalSeconds \div 3600
        minutes      == (totalSeconds % 3600) \div 60
        seconds      == totalSeconds % 60
    IN  IF hours > 0
        THEN toString(hours) \o <<":">> \o padStart(toString(minutes), 2)
                 \o <<":">> \o padStart(toString(seconds), 2)
        ELSE toString(minutes) \o <<":">> \o padStart(toString(seconds), 2)

\* event.segs.map(seg => seg.utf8 || '').join('')
RECURSIVE segsText(_)
segsText(segs) ==
    IF segs = <<>> THEN <<>>
    ELSE (IF Head(segs).utf8 = Undefined THEN <<>> ELSE Head(segs).utf8)
             \o segsText(Tail(segs))

\* The segment text pushed without trim()
eventStepUntrimmed(transcript, event) ==
    IF event.hasSegs
    THEN LET startTime == IF event.hasStart THEN event.tStartMs ELSE 0
             text      == segsText(event.segs)
         IN  IF text # <<>>
             THEN Append(transcript,
                         [timestamp |-> formatTimestamp(startTime), text |-> text])
             ELSE transcript
    ELSE transcript

\* One iteration of the for loop of parseTranscriptData
eventStep(transcript, event) ==
    IF event.hasSegs
    THEN LET startTime == IF event.hasStart THEN event.tStartMs ELSE 0
             text      == trim(segsText(event.segs))
         IN  IF text # <<>>
             THEN Append(transcript,
                         [timestamp |-> formatTimestamp(startTime), text |-> text])
             ELSE transcript
    ELSE transcript

RECURSIVE eventLoop(_, _)
eventLoop(transcript, events) ==
    IF events = <<>> THEN transcript
    ELSE eventLoop(eventStep(transcript, Head(events)), Tail(events))

parseTranscriptData(transcriptData) ==
    LET events == IF transcriptData.hasEvents THEN transcriptData.events ELSE <<>>
    IN  eventLoop(<<>>, events)

-----------------------------------------------------------------------------
(* parseVTT *)

WEBVTT == <<"W", "E", "B", "V", "T", "T">>
NOTE == <<"N", "O", "T", "E">>
Arrow == <<"-", "-", ">">>

\* The pending text pushed without the test of currentTimestamp
flushAnyTimestamp(st) ==
    IF st.currentText # <<>>
    THEN Append(st.transcript,
                [timestamp |-> st.currentTimestamp, text |-> trim(st.currentText)])
    ELSE st.transcript

flush(st) ==
    IF st.currentText # <<>> /\ st.currentTimestamp # <<>>
    THEN Append(st.transcript,
                [timestamp |-> st.currentTimestamp, text |-> trim(st.currentText)])
    ELSE st.transcript

\* One iteration of the for loop of parseVTT
vttStep(st, rawLine) ==
    LET line == trim(rawLine)
    IN  IF line = WEBVTT \/ line = <<>> \/ startsWith(line, NOTE)
        THEN st
        ELSE IF includes(line, Arrow)
        THEN [transcript       |-> flush(st),
              currentText      |-> <<>>,
              currentTimestamp |-> trim(split(line, Arrow)[1])]
        ELSE [st EXCEPT !.currentText = st.currentText \o line \o <<" ">>]

RECURSIVE vttLoop(_, _)
vttLoop(st, lines) ==
    IF lines = <<>> THEN st ELSE vttLoop(vttStep(st, Head(lines)), Tail(lines))

parseVTT(vttContent) ==
    LET lines == split(vttContent, <<"\n">>)
        st0   == [transcript |-> <<>>, currentText |-> <<>>, currentTimestamp |-> <<>>]
    IN  flush(vttLoop(st0, lines))

-----------------------------------------------------------------------------
(* Inputs of the pure functions *)

SeqsUpTo(S, n) == UNION {[1..k -> S] : k \in 0..n}

enUS == <<"e", "n", "-", "U", "S">>
es == <<"e", "s">>

LanguageCodes == {en, enUS, es, Undefined}

Tracks ==
    [languageCode : LanguageCodes, kind : {"asr", "undefined"}, baseUrl : {"u1", "u2"}]

\* Lines of a subtitle file: blank, header, comment, timing cues (plain, with
\* surrounding whitespace, with an empty start token) and text lines
VttLines ==
    { <<>>,
      <<" ", "\r">>,
      WEBVTT,
      NOTE \o <<" ", "x">>,
      <<"1", " ">> \o Arrow \o <<" ", "2">>,
      <<" ", "3">> \o Arrow \o <<"4", "\r">>,
      Arrow \o <<" ", "2">>,
      <<"a">>,
      <<" ", "b", " ", "c", " ">> }

StartTimes == {0, 65000, 599999, 600000, 3599999, 3661000, 36000000}

SegLists ==
    { <<[utf8 |-> <<"a">>], [utf8 |-> <<"b">>]>>,
      <<[utf8 |-> <<" ", " ">>]>>,
      <<[utf8 |-> Undefined]>>,
      <<[utf8 |-> <<" ", "a">>], [utf8 |-> Undefined], [utf8 |-> <<" ", "b", "\n">>]>>,
      <<>> }

Events ==
    [hasSegs : {TRUE}, segs : SegLists, hasStart : {TRUE}, tStartMs : StartTimes]
      \cup [hasSegs : {TRUE}, segs : SegLists, hasStart : {FALSE}, tStartMs : {0}]
      \cup [hasSegs : {FALSE}, segs : {<<>>}, hasStart : {TRUE}, tStartMs : {0, 65000}]

TranscriptDatas ==
    [hasEvents : {TRUE}, events : SeqsUpTo(Events, MaxEvents)]
      \cup {[hasEvents |-> FALSE, events |-> <<>>]}

-----------------------------------------------------------------------------
(* Evaluation of the pure functions on the inputs *)

HandlerIdle ==
    /\ clock = 0
    /\ dirs = <<>>
    /\ req = <<>>

InitTrack ==
    /\ fn = "findEnglishTrack"
    /\ arg \in SeqsUpTo(Tracks, MaxTracks)
    /\ ret = NoTrack
    /\ called = FALSE
    /\ HandlerIdle

InitNormalize ==
    /\ \/ /\ fn = "parseVTT"
          /\ \E ls \in SeqsUpTo(VttLines, MaxLines) :
                 arg = [lines |-> ls, vttContent |-> join(ls, <<"\n">>)]
       \/ /\ fn = "parseTranscriptData"
          /\ arg \in TranscriptDatas
    /\ ret = <<>>
    /\ called = FALSE
    /\ HandlerIdle

CallFindEnglishTrack ==
    /\ fn = "findEnglishTrack"
    /\ ~called
    /\ ret' = findEnglishTrack(arg)
    /\ called' = TRUE
    /\ UNCHANGED <<fn, arg, clock, dirs, req>>

CallParseVTT ==
    /\ fn = "parseVTT"
    /\ ~called
    /\ ret' = parseVTT(arg.vttContent)
    /\ called' = TRUE
    /\ UNCHANGED <<fn, arg, clock, dirs, req>>

CallParseTranscriptData ==
    /\ fn = "parseTranscriptData"
    /\ ~called
    /\ ret' = parseTranscriptData(arg)
    /\ called' = TRUE
    /\ UNCHANGED <<fn, arg, clock, dirs, req>>

NextTrack == CallFindEnglishTrack

NextNormalize == CallParseVTT \/ CallParseTranscriptData

SpecTrack == InitTrack /\ [][NextTrack]_vars

SpecNormalize == InitNormalize /\ [][NextNormalize]_vars

-----------------------------------------------------------------------------
(* Properties of findEnglishTrack *)

MinOf(S) == CHOOSE i \in S : \A j \in S : i <= j

ManualEnAt(tracks) ==
    {i \in 1..Len(tracks) : tracks[i].languageCode = en /\ tracks[i].kind # "asr"}

AsrEnAt(tracks) ==
    {i \in 1..Len(tracks) : tracks[i].languageCode = en /\ tracks[i].kind = "asr"}

EnPrefixAt(tracks) ==
    {i \in 1..Len(tracks) :
        /\ tracks[i].languageCode # Undefined
        /\ Len(tracks[i].languageCode) >= 2
        /\ tracks[i].languageCode[1] = "e"
        /\ tracks[i].languageCode[2] = "n"}

SelectedTrack(tracks) ==
    IF ManualEnAt(tracks) # {} THEN tracks[MinOf(ManualEnAt(tracks))]
    ELSE IF AsrEnAt(tracks) # {} THEN tracks[MinOf(AsrEnAt(tracks))]
    ELSE IF EnPrefixAt(tracks) # {} THEN tracks[MinOf(EnPrefixAt(tracks))]
    ELSE NoTrack

Swap(tracks, i, j) ==
    [k \in 1..Len(tracks) |->
        IF k = i THEN tracks[j] ELSE IF k = j THEN tracks[i] ELSE tracks[k]]

\* C5: findEnglishTrack returns the first manual "en" track if there is one,
\* otherwise the first auto-generated "en" track, otherwise the first track
\* whose languageCode starts with "en", otherwise no track.  With one manual
\* "en" track in the list, exchanging it with an auto-generated "en" track
\* does not change the result, and a list without a track whose languageCode
\* starts with "en" yields no track.
TrackSelectionPriority ==
    (fn = "findEnglishTrack" /\ called) =>
        /\ ret = SelectedTrack(arg)
        /\ Cardinality(ManualEnAt(arg)) = 1 =>
               \A i \in ManualEnAt(arg) : \A j \in AsrEnAt(arg) :
                   /\ ret = arg[i]
                   /\ findEnglishTrack(Swap(arg, i, j)) = ret
        /\ EnPrefixAt(arg) = {} => ret = NoTrack

\* The auto-generated "en" track comes first and the manual one is returned
ManualPreferredOverEarlierAsr ==
    /\ fn = "findEnglishTrack"
    /\ called
    /\ Len(arg) = 2
    /\ arg[1] = [languageCode |-> en, kind |-> "asr", baseUrl |-> "u1"]
    /\ arg[2] = [languageCode |-> en, kind |-> "undefined", baseUrl |-> "u2"]
    /\ ret = arg[2]

-----------------------------------------------------------------------------
(* Properties of the normalizers *)

AllWhitespace(s) == \A i \in 1..Len(s) : IsWhitespace(s[i])

Trimmed(s) ==
    /\ s # <<>>
    /\ ~IsWhitespace(s[1])
    /\ ~IsWhitespace(s[Len(s)])

\* Concatenated segment text of an event, a missing segment text being empty
RECURSIVE Concat(_)
Concat(ss) == IF ss = <<>> THEN <<>> ELSE Head(ss) \o Concat(Tail(ss))

EventText(e) ==
    Concat([k \in 1..Len(e.segs) |->
               IF e.segs[k].utf8 = Undefined THEN <<>> ELSE e.segs[k].utf8])

EventsOf(data) == IF data.hasEvents THEN data.events ELSE <<>>

KeptEvent(e) == e.hasSegs /\ ~AllWhitespace(EventText(e))

\* Classification of the lines of a subtitle file
Stripped(l) == trim(l)

IsSkippedLine(l) ==
    \/ Stripped(l) = WEBVTT
    \/ Stripped(l) = <<>>
    \/ (Len(Stripped(l)) >= 4 /\ SubSeq(Stripped(l), 1, 4) = NOTE)

IsCueLine(l) == ~IsSkippedLine(l) /\ \E i \in 1..Len(l) : startsWithAt(l, Arrow, i)

IsTextLine(l) == ~IsSkippedLine(l) /\ ~IsCueLine(l)

CueAt(ls) == {i \in 1..Len(ls) : IsCueLine(ls[i])}

\* Index of the timing cue after cue i, or one past the end of the input
NextCue(ls, i) ==
    IF \E j \in CueAt(ls) : j > i
    THEN MinOf({j \in CueAt(ls) : j > i})
    ELSE Len(ls) + 1

\* Text lines of cue i: those between it and the next timing cue
CueTextLines(ls, i) ==
    SelectSeq(SubSeq(ls, i + 1, NextCue(ls, i) - 1), IsTextLine)

\* Trimmed text before the first separator of a timing cue
StartToken(l) ==
    LET at == MinOf({i \in 1..Len(l) : startsWithAt(l, Arrow, i)})
    IN  trim(SubSeq(l, 1, at - 1))

EmittingCue(ls, i) ==
    /\ i \in CueAt(ls)
    /\ StartToken(ls[i]) # <<>>
    /\ CueTextLines(ls, i) # <<>>

\* The emitting cues of the input in source order
EmittingCues(ls) ==
    SelectSeq([i \in 1..Len(ls) |-> i], LAMBDA i : EmittingCue(ls, i))

CueText(ls, i) ==
    LET ts == CueTextLines(ls, i)
    IN  join([k \in 1..Len(ts) |-> Stripped(ts[k])], <<" ">>)

\* C7: every entry returned by parseTranscriptData or parseVTT has a non-empty
\* text without leading or trailing whitespace, and an event or cue whose
\* text is empty or whitespace-only produces no entry.
EntriesHaveTrimmedText ==
    /\ (fn \in {"parseTranscriptData", "parseVTT"} /\ called) =>
           \A k \in 1..Len(ret) : Trimmed(ret[k].text)
    /\ (fn = "parseTranscriptData" /\ called) =>
           Len(ret) <= Len(SelectSeq(EventsOf(arg), LAMBDA e : ~AllWhitespace(EventText(e))))
    /\ (fn = "parseVTT" /\ called) =>
           Len(ret) <= Cardinality({i \in CueAt(arg.lines) : CueTextLines(arg.lines, i) # <<>>})

\* An event with whitespace-only text is dropped, one with padded text is kept
WhitespaceEventDropped ==
    /\ fn = "parseTranscriptData"
    /\ called
    /\ Len(EventsOf(arg)) = 2
    /\ EventsOf(arg)[1].segs = <<[utf8 |-> <<" ", " ">>]>>
    /\ EventsOf(arg)[2].segs =
           <<[utf8 |-> <<" ", "a">>], [utf8 |-> Undefined], [utf8 |-> <<" ", "b", "\n">>]>>
    /\ Len(ret) = 1
    /\ ret[1].text = <<"a", " ", "b">>

\* C8: parseVTT skips header, blank and comment lines and emits, in source
\* order, one entry per timing cue with a non-empty start token and at least
\* one text line before the next timing cue or the end of input; its timestamp
\* is the trimmed text before the separator and its text the text lines joined
\* by single spaces.  A cue without text lines and text before the first cue
\* emit nothing.
VttOneEntryPerCueWithText ==
    (fn = "parseVTT" /\ called) =>
        LET cues == EmittingCues(arg.lines)
        IN  /\ Len(ret) = Len(cues)
            /\ \A k \in 1..Len(cues) :
                   /\ ret[k].timestamp = StartToken(arg.lines[cues[k]])
                   /\ ret[k].text = CueText(arg.lines, cues[k])

\* Text before the first cue, a cue with two text lines, a cue without text
VttCueWithTwoTextLines ==
    /\ fn = "parseVTT"
    /\ called
    /\ arg.lines = << <<"a">>,
                      <<"1", " ">> \o Arrow \o <<" ", "2">>,
                      <<"a">>,
                      <<" ", "b", " ", "c", " ">> >>
    /\ ret = <<[timestamp |-> <<"1">>, text |-> <<"a", " ", "b", " ", "c">>]>>

VttCueWithoutTextDropped ==
    /\ fn = "parseVTT"
    /\ called
    /\ Len(arg.lines) = 3
    /\ arg.lines[1] = <<"1", " ">> \o Arrow \o <<" ", "2">>
    /\ arg.lines[2] = <<" ", "3">> \o Arrow \o <<"4", "\r">>
    /\ arg.lines[3] = <<"a">>
    /\ ret = <<[timestamp |-> <<"3">>, text |-> <<"a">>]>>

\* Decimal value of a string of digits
IsDigits(s) == s # <<>> /\ \A i \in 1..Len(s) : \E d \in 0..9 : Digit(d) = s[i]

RECURSIVE ValueOf(_)
ValueOf(s) ==
    IF s = <<>> THEN 0
    ELSE 10 * ValueOf(SubSeq(s, 1, Len(s) - 1))
             + (CHOOSE d \in 0..9 : Digit(d) = s[Len(s)])

Unpadded(s) == IsDigits(s) /\ (s = <<"0">> \/ s[1] # "0")

TwoDigits(s) == IsDigits(s) /\ Len(s) = 2 /\ ValueOf(s) < 60

\* ts is the H:MM:SS (from 3600 seconds on) or M:SS rendering of total seconds
Renders(ts, total) ==
    LET parts == split(ts, <<":">>)
    IN  IF total >= 3600
        THEN /\ Len(parts) = 3
             /\ Unpadded(parts[1]) /\ TwoDigits(parts[2]) /\ TwoDigits(parts[3])
             /\ 3600 * ValueOf(parts[1]) + 60 * ValueOf(parts[2]) + ValueOf(parts[3]) = total
        ELSE /\ Len(parts) = 2
             /\ Unpadded(parts[1]) /\ TwoDigits(parts[2])
             /\ 60 * ValueOf(parts[1]) + ValueOf(parts[2]) = total

StartSeconds(e) == (IF e.hasStart THEN e.tStartMs ELSE 0) \div 1000

\* C9: parseTranscriptData skips events without segs and yields, in the order
\* of the events, one entry per event with segs whose concatenated segment
\* text is non-empty after trimming; the timestamp renders
\* floor(tStartMs / 1000) seconds (0 when tStartMs is absent) as H:MM:SS from
\* 3600 seconds on and as M:SS below (3661 s is "1:01:01", 65 s is "1:05").
EventsOneEntryEachWithTimestamp ==
    (fn = "parseTranscriptData" /\ called) =>
        LET kept == SelectSeq(EventsOf(arg), KeptEvent)
        IN  /\ Len(ret) = Len(kept)
            /\ \A k \in 1..Len(kept) :
                   /\ ret[k].text = trim(EventText(kept[k]))
                   /\ Renders(ret[k].timestamp, StartSeconds(kept[k]))
                   /\ StartSeconds(kept[k]) = 3661 =>
                          ret[k].timestamp = <<"1", ":", "0", "1", ":", "0", "1">>
                   /\ StartSeconds(kept[k]) = 65 =>
                          ret[k].timestamp = <<"1", ":", "0", "5">>

\* An event without segs is skipped; 65 s and 3661 s are rendered
EventsRenderedBothFormats ==
    /\ fn = "parseTranscriptData"
    /\ called
    /\ arg.hasEvents
    /\ Len(arg.events) = 2
    /\ arg.events[1].tStartMs = 65000
    /\ arg.events[2].tStartMs = 3661000
    /\ ret = <<[timestamp |-> <<"1", ":", "0", "5">>, text |-> <<"a", "b">>],
               [timestamp |-> <<"1", ":", "0", "1", ":", "0", "1">>, text |-> <<"a", "b">>]>>

-----------------------------------------------------------------------------
(* extractVideoId *)

Null == <<"null">>

YoutubeCom == <<"y", "o", "u", "t", "u", "b", "e", ".", "c", "o", "m">>
YoutuBe == <<"y", "o", "u", "t", "u", ".", "b", "e">>
Embed == <<"e", "m", "b", "e", "d">>

\* [^"&?\/\s]
idChar(c) == c \notin {"\"", "&", "?", "/"} /\ ~IsWhitespace(c)

\* . of a regular expression without the s flag
dotChar(c) == c \notin {"\n", "\r"}

\* ([^"&?\/\s]{11}) at position i
captureAt(url, i) ==
    /\ i >= 1
    /\ i + 10 <= Len(url)
    /\ \A k \in i..(i + 10) : idChar(url[k])

MaxOf(S) == CHOOSE i \in S : \A j \in S : j <= i

\* [^\/]+\/.+\/ from position q, then the capture: the position of the
\* capture under greedy matching, 0 when the alternative fails
pathAlternative(url, q) ==
    LET slashes == {i \in (q + 1)..Len(url) :
                       /\ url[i] = "/"
                       /\ \A k \in q..(i - 1) : url[k] # "/"}
        ends    == {e \in 1..Len(url) :
                       /\ slashes # {}
                       /\ e >= MinOf(slashes) + 2
                       /\ url[e] = "/"
                       /\ \A k \in (MinOf(slashes) + 1)..(e - 1) : dotChar(url[k])
                       /\ captureAt(url, e + 1)}
    IN  IF ends = {} THEN 0 ELSE MaxOf(ends) + 1

\* (?:v|e(?:mbed)?)\/ from position q, then the capture
embedAlternative(url, q) ==
    IF startsWithAt(url, <<"v", "/">>, q) /\ captureAt(url, q + 2) THEN q + 2
    ELSE IF startsWithAt(url, Embed \o <<"/">>, q) /\ captureAt(url, q + 6) THEN q + 6
    ELSE IF startsWithAt(url, <<"e", "/">>, q) /\ captureAt(url, q + 2) THEN q + 2
    ELSE 0

\* .*[?&]v= from position q, then the capture
queryAlternative(url, q) ==
    LET ats == {a \in q..Len(url) :
                   /\ url[a] \in {"?", "&"}
                   /\ startsWithAt(url, <<"v", "=">>, a + 1)
                   /\ \A k \in q..(a - 1) : dotChar(url[k])
                   /\ captureAt(url, a + 3)}
    IN  IF ats = {} THEN 0 ELSE MaxOf(ats) + 3

\* The whole expression anchored at position p: the position of the capture
\* of the first alternative that matches, 0 when none does
matchAt(url, p) ==
    IF startsWithAt(url, YoutubeCom \o <<"/">>, p)
    THEN LET q == p + Len(YoutubeCom) + 1
         IN  IF pathAlternative(url, q) # 0 THEN pathAlternative(url, q)
             ELSE IF embedAlternative(url, q) # 0 THEN embedAlternative(url, q)
             ELSE queryAlternative(url, q)
    ELSE IF startsWithAt(url, YoutuBe \o <<"/">>, p) /\ captureAt(url, p + Len(YoutuBe) + 1)
    THEN p + Len(YoutuBe) + 1
    ELSE 0

extractVideoId(url) ==
    LET starts == {p \in 1..Len(url) : matchAt(url, p) # 0}
    IN  IF starts = {} THEN Null
        ELSE LET c == matchAt(url, MinOf(starts))
             IN  SubSeq(url, c, c + 10)

-----------------------------------------------------------------------------
(* Inputs of extractVideoId: scheme, URL shape, ID token and trailing part *)

Schemes == { <<>>, <<"h", "t", "t", "p", "s", ":", "/", "/">>, <<"h", "t", "t", "p", "s", ":", "/", "/", "w", "w", "w", ".">> }

AcceptedShapes ==
    { [name |-> "watch", prefix |-> YoutubeCom \o <<"/", "w", "a", "t", "c", "h", "?", "v", "=">>],
      [name |-> "embed", prefix |-> YoutubeCom \o <<"/">> \o Embed \o <<"/">>],
      [name |-> "v",     prefix |-> YoutubeCom \o <<"/", "v", "/">>],
      [name |-> "short", prefix |-> YoutuBe \o <<"/">>] }

OtherShapes ==
    { [name |-> "e",       prefix |-> YoutubeCom \o <<"/", "e", "/">>],
      [name |-> "channel", prefix |-> YoutubeCom \o <<"/", "c", "h", "a", "n", "n", "e", "l", "/", "a", "/">>],
      [name |-> "bare",    prefix |-> YoutubeCom \o <<"/">>],
      [name |-> "foreign", prefix |-> <<"e", "x", "a", "m", "p", "l", "e", ".", "c", "o", "m", "/", "w", "a", "t", "c", "h", "?", "v", "=">>] }

IdAlphabet ==
    { "A", "B", "C", "D", "E", "F", "G", "H", "I", "J", "K", "L", "M", "N", "O", "P",
      "Q", "R", "S", "T", "U", "V", "W", "X", "Y", "Z", "a", "b", "c", "d", "e", "f",
      "g", "h", "i", "j", "k", "l", "m", "n", "o", "p", "q", "r", "s", "t", "u", "v",
      "w", "x", "y", "z", "0", "1", "2", "3", "4", "5", "6", "7", "8", "9", "_", "-" }

IdTokens ==
    { <<"d", "Q", "w", "4", "w", "9", "W", "g", "X", "c", "Q">>,
      <<"a", "-", "b", "_", "c", "-", "d", "_", "e", "-", "0">>,
      <<"d", "Q", "w", "4", "w", "9", "W", "g", "X", "c">>,
      <<"d", "Q", "w", "4", "w", "9", "W", "g", "X", "c", "Q", "Z">>,
      <<"d", "Q", "w", "4", "w", ".", "W", "g", "X", "c", "Q">>,
      <<"d", "Q", "w", "4", "w", "&", "W", "g", "X", "c", "Q">> }

Trailers == { <<>>, <<"&", "t", "=", "1">>, <<"/", "x">> }

IsVideoId(id) == Len(id) = 11 /\ \A i \in 1..Len(id) : id[i] \in IdAlphabet

InitVideoId ==
    /\ fn = "extractVideoId"
    /\ \E scheme \in Schemes, shape \in AcceptedShapes \cup OtherShapes,
          id \in IdTokens, trailer \in Trailers :
           arg = [shape |-> shape.name, id |-> id,
                  url |-> scheme \o shape.prefix \o id \o trailer]
    /\ ret = Null
    /\ called = FALSE
    /\ HandlerIdle

CallExtractVideoId ==
    /\ fn = "extractVideoId"
    /\ ~called
    /\ ret' = extractVideoId(arg.url)
    /\ called' = TRUE
    /\ UNCHANGED <<fn, arg, clock, dirs, req>>

NextVideoId == CallExtractVideoId

SpecVideoId == InitVideoId /\ [][NextVideoId]_vars

AcceptedShapeNames == {shape.name : shape \in AcceptedShapes}

\* C6: extractVideoId returns the ID for every accepted URL shape
\* (watch?v=ID, /embed/ID, /v/ID, short-domain/ID) carrying an ID of exactly
\* 11 characters of [A-Za-z0-9_-], and null for every other URL.
VideoIdOrNull ==
    (fn = "extractVideoId" /\ called) =>
        IF arg.shape \in AcceptedShapeNames /\ IsVideoId(arg.id)
        THEN ret = arg.id
        ELSE ret = Null

\* The part of C6 about the accepted shapes alone
VideoIdOfAcceptedShape ==
    (fn = "extractVideoId" /\ called /\ arg.shape \in AcceptedShapeNames /\ IsVideoId(arg.id))
        => ret = arg.id

-----------------------------------------------------------------------------
(* exports.handler: responses and the checks before extraction *)

Response(statusCode, cors, kind, error, details, transcript, url) ==
    [statusCode |-> statusCode, cors |-> cors, kind |-> kind, error |-> error,
     details |-> details, transcript |-> transcript, url |-> url]

NoResponse == Response(0, FALSE, "none", "", "", <<>>, Undefined)

methodNotAllowed ==
    Response(405, FALSE, "error", "Method not allowed", "", <<>>, Undefined)

preflight == Response(200, TRUE, "empty", "", "", <<>>, Undefined)

badRequest(error) == Response(400, TRUE, "error", error, "", <<>>, Undefined)

failure(details) ==
    Response(500, TRUE, "errorDetails", "Failed to extract transcript", details,
             <<>>, Undefined)

success(transcript, url) == Response(200, TRUE, "success", "", "", transcript, url)

Http == <<"h", "t", "t", "p", ":", "/", "/">>
Https == <<"h", "t", "t", "p", "s", ":", "/", "/">>
Www == <<"w", "w", "w", ".">>

\* /^(https?:\/\/)?(www\.)?(youtube\.com|youtu\.be)\/.+/.test(url)
youtubeRegex(url) ==
    LET s1   == IF startsWith(url, Https) THEN drop(url, Len(Https))
                ELSE IF startsWith(url, Http) THEN drop(url, Len(Http))
                ELSE url
        s2   == IF startsWith(s1, Www) THEN drop(s1, Len(Www)) ELSE s1
        host == IF startsWith(s2, YoutubeCom) THEN Len(YoutubeCom)
                ELSE IF startsWith(s2, YoutuBe) THEN Len(YoutuBe)
                ELSE 0
    IN  /\ host # 0
        /\ Len(s2) >= host + 2
        /\ s2[host + 1] = "/"
        /\ dotChar(s2[host + 2])

\* The handler up to the call of extractTranscript: the response it returns
\* there, NoResponse when it goes on to extraction
prologue(httpMethod, body) ==
    IF httpMethod # "POST" THEN methodNotAllowed
    ELSE IF httpMethod = "OPTIONS" THEN preflight
    ELSE IF body.json = "invalid" THEN failure("Unexpected token in JSON")
    ELSE IF body.json = "null"
    THEN failure("Cannot destructure property 'url' of null")
    ELSE IF body.url = Undefined \/ body.url = <<>>
    THEN badRequest("YouTube URL is required")
    ELSE IF ~youtubeRegex(body.url) THEN badRequest("Invalid YouTube URL")
    ELSE NoResponse

-----------------------------------------------------------------------------
(* Inputs of the handler *)

Requests == {"r1", "r2"}

Methods == {"POST", "OPTIONS", "GET"}

UrlShort == <<"h", "t", "t", "p", "s", ":", "/", "/", "y", "o", "u", "t", "u", ".", "b", "e", "/", "d", "Q", "w", "4", "w", "9", "W", "g", "X", "c", "Q">>
UrlEmbed == <<"w", "w", "w", ".", "y", "o", "u", "t", "u", "b", "e", ".", "c", "o", "m", "/", "e", "m", "b", "e", "d", "/", "a", "-", "b", "_", "c", "-", "d", "_", "e", "-", "0">>
UrlNoId == <<"h", "t", "t", "p", ":", "/", "/", "y", "o", "u", "t", "u", "b", "e", ".", "c", "o", "m", "/", "p", "l", "a", "y", "l", "i", "s", "t">>
UrlForeign == <<"h", "t", "t", "p", "s", ":", "/", "/", "e", "x", "a", "m", "p", "l", "e", ".", "c", "o", "m", "/", "w", "a", "t", "c", "h", "?", "v", "=", "d", "Q", "w", "4", "w", "9", "W", "g", "X", "c", "Q">>

WellFormedBodies ==
    { [json |-> "object", url |-> UrlShort],
      [json |-> "object", url |-> UrlEmbed],
      [json |-> "object", url |-> UrlNoId] }

MalformedBodies ==
    { [json |-> "invalid", url |-> Undefined],
      [json |-> "null", url |-> Undefined],
      [json |-> "object", url |-> Undefined],
      [json |-> "object", url |-> <<>>],
      [json |-> "object", url |-> UrlForeign] }

Bodies == WellFormedBodies \cup MalformedBodies

NoBody == [json |-> "invalid", url |-> Undefined]

TrackAsrEn == [languageCode |-> en, kind |-> "asr", baseUrl |-> "u1"]
TrackManualEn == [languageCode |-> en, kind |-> "undefined", baseUrl |-> "u2"]
TrackManualEs == [languageCode |-> es, kind |-> "undefined", baseUrl |-> "u1"]

\* Bodies of the player API: not JSON, without the captions path, with an
\* empty track list, without and with an English track
PlayerResponses ==
    { [parses |-> FALSE, hasCaptions |-> FALSE, captionTracks |-> <<>>],
      [parses |-> TRUE, hasCaptions |-> FALSE, captionTracks |-> <<>>],
      [parses |-> TRUE, hasCaptions |-> TRUE, captionTracks |-> <<>>],
      [parses |-> TRUE, hasCaptions |-> TRUE, captionTracks |-> <<TrackManualEs>>],
      [parses |-> TRUE, hasCaptions |-> TRUE,
       captionTracks |-> <<TrackAsrEn, TrackManualEn>>] }

NoPlayerResponse == [parses |-> FALSE, hasCaptions |-> FALSE, captionTracks |-> <<>>]

EventBlank ==
    [hasSegs |-> TRUE, segs |-> <<[utf8 |-> <<" ", " ">>]>>, hasStart |-> TRUE, tStartMs |-> 0]
EventAb ==
    [hasSegs |-> TRUE, segs |-> <<[utf8 |-> <<"a">>], [utf8 |-> <<"b">>]>>,
     hasStart |-> TRUE, tStartMs |-> 65000]

\* Bodies of the caption track URL: not JSON, without events, with events
Payloads ==
    { [parses |-> FALSE, hasEvents |-> FALSE, events |-> <<>>],
      [parses |-> TRUE, hasEvents |-> FALSE, events |-> <<>>],
      [parses |-> TRUE, hasEvents |-> TRUE, events |-> <<EventBlank, EventAb>>] }

NoPayload == [parses |-> FALSE, hasEvents |-> FALSE, events |-> <<>>]

DotVtt == <<".", "v", "t", "t">>

NoFile == [name |-> <<>>, vttContent |-> <<>>, readable |-> FALSE]

\* What the downloader writes for a video: its subtitle file (readable or
\* not) or a file of another kind
subtitleFile(url, readable) ==
    [name       |-> (IF extractVideoId(url) = Null THEN <<"p">> ELSE extractVideoId(url))
                        \o <<".", "e", "n">> \o DotVtt,
     vttContent |-> join(<<WEBVTT, <<>>, <<"1", " ">> \o Arrow \o <<" ", "2">>,
                           IF extractVideoId(url) = Null THEN <<"p">>
                           ELSE SubSeq(extractVideoId(url), 1, 1),
                           <<" ", "b", " ", "c", " ">> >>, <<"\n">>),
     readable   |-> readable]

otherFile == [name |-> <<"x", ".", "p", "a", "r", "t">>, vttContent |-> <<>>, readable |-> TRUE]

NoListing == [exists |-> FALSE, files |-> <<>>]

-----------------------------------------------------------------------------
(* The Innertube variant: exports.handler and extractTranscript *)

NoRequest ==
    [pc |-> "idle", variant |-> "none", httpMethod |-> "none", body |-> NoBody,
     requested |-> FALSE, playerState |-> "none", player |-> NoPlayerResponse,
     track |-> NoTrack, payloadState |-> "none", payload |-> NoPayload,
     tempDir |-> -1, created |-> FALSE, removed |-> FALSE, wrote |-> FALSE,
     exit |-> "none", seen |-> NoListing, response |-> NoResponse]

InitHandler ==
    /\ fn = "handler"
    /\ arg = <<>>
    /\ ret = <<>>
    /\ called = FALSE
    /\ clock = 0
    /\ dirs = <<>>
    /\ req = [r \in Requests |-> NoRequest]

Pure == <<fn, arg, ret, called>>

\* The promise or handler of request r settles with this response
Return(r, fields, response) ==
    req' = [req EXCEPT ![r] = [fields EXCEPT !.pc = "done", !.response = response]]

\* catch of extractTranscript: the error is rethrown with a prefix
rethrow(message) == failure("Failed to extract transcript: " \o message)

extractCaptionTracks(playerResponse) ==
    IF playerResponse.hasCaptions THEN playerResponse.captionTracks ELSE <<>>

\* extractTranscript from the parsed player response to the choice of the
\* track: the track, or the message of the error thrown
selectTrack(playerResponse) ==
    LET captionTracks == extractCaptionTracks(playerResponse)
        englishTrack  == findEnglishTrack(captionTracks)
    IN  IF Len(captionTracks) = 0
        THEN [ok |-> FALSE, track |-> NoTrack,
              message |-> "No transcript/subtitles found for this video"]
        ELSE IF englishTrack = NoTrack
        THEN [ok |-> FALSE, track |-> NoTrack,
              message |-> "No English transcript found for this video"]
        ELSE [ok |-> TRUE, track |-> englishTrack, message |-> ""]

\* exports.handler of the Innertube variant up to the request to the player API
HandlerApi(r, httpMethod, body) ==
    /\ req[r].pc = "idle"
    /\ LET started == [req[r] EXCEPT !.variant = "api", !.httpMethod = httpMethod,
                                     !.body = body]
       IN  IF prologue(httpMethod, body) # NoResponse
           THEN Return(r, started, prologue(httpMethod, body))
           ELSE IF extractVideoId(body.url) = Null
           THEN Return(r, started,
                       rethrow("Invalid YouTube URL - could not extract video ID"))
           ELSE req' = [req EXCEPT ![r] = [started EXCEPT !.pc = "awaitPlayer",
                                                          !.requested = TRUE]]
    /\ UNCHANGED <<Pure, clock, dirs>>

\* getPlayerResponse: res.on('end') and the rest of extractTranscript up to
\* the request of the caption track
PlayerEnd(r, playerResponse) ==
    /\ req[r].pc = "awaitPlayer"
    /\ LET got == [req[r] EXCEPT !.playerState = "end", !.player = playerResponse]
       IN  IF ~playerResponse.parses
           THEN Return(r, got, rethrow("Failed to parse YouTube API response"))
           ELSE IF ~selectTrack(playerResponse).ok
           THEN Return(r, got, rethrow(selectTrack(playerResponse).message))
           ELSE req' = [req EXCEPT ![r] =
                           [got EXCEPT !.pc = "awaitTranscript",
                                       !.track = selectTrack(playerResponse).track]]
    /\ UNCHANGED <<Pure, clock, dirs>>

\* getPlayerResponse: req.on('error')
PlayerError(r) ==
    /\ req[r].pc = "awaitPlayer"
    /\ Return(r, [req[r] EXCEPT !.playerState = "error"],
              rethrow("YouTube API request failed: network error"))
    /\ UNCHANGED <<Pure, clock, dirs>>

\* downloadTranscript: res.on('end'), parseTranscriptData and the 200 response
TranscriptEnd(r, transcriptData) ==
    /\ req[r].pc = "awaitTranscript"
    /\ LET got == [req[r] EXCEPT !.payloadState = "end", !.payload = transcriptData]
       IN  IF ~transcriptData.parses
           THEN Return(r, got, rethrow("Failed to parse transcript data"))
           ELSE Return(r, got, success(parseTranscriptData(transcriptData),
                                       req[r].body.url))
    /\ UNCHANGED <<Pure, clock, dirs>>

\* downloadTranscript: req.on('error')
TranscriptError(r) ==
    /\ req[r].pc = "awaitTranscript"
    /\ Return(r, [req[r] EXCEPT !.payloadState = "error"],
              rethrow("Transcript download failed: network error"))
    /\ UNCHANGED <<Pure, clock, dirs>>

-----------------------------------------------------------------------------
(* The downloader variant: exports.handler and extractTranscript *)

\* fs.mkdirSync(tempDir, { recursive: true })
mkdirSync(fs, tempDir) ==
    [d \in DOMAIN fs \cup {tempDir} |-> IF d \in DOMAIN fs THEN fs[d] ELSE {}]

\* fs.rmSync(tempDir, { recursive: true, force: true })
rmSync(fs, tempDir) == [d \in DOMAIN fs \ {tempDir} |-> fs[d]]

\* The file is written into the directory, replacing one of the same name
writeFile(fs, tempDir, file) ==
    [fs EXCEPT ![tempDir] = {f \in fs[tempDir] : f.name # file.name} \cup {file}]

\* fs.readdirSync: the entries of the directory in some order
readdirSync(fs, tempDir) ==
    IF tempDir \in DOMAIN fs
    THEN {[exists |-> TRUE, files |-> files] :
             files \in {fs2 \in [1..Cardinality(fs[tempDir]) -> fs[tempDir]] :
                           \A f \in fs[tempDir] : \E i \in DOMAIN fs2 : fs2[i] = f}}
    ELSE {NoListing}

isVtt(file) == endsWith(file.name, DotVtt)

\* The close handler without the test of the exit code
onCloseAnyCode(code, listing) ==
    LET vttFile == find(listing.files, {i \in DOMAIN listing.files : isVtt(listing.files[i])}, NoFile)
    IN  IF ~listing.exists
        THEN [ok |-> FALSE, transcript |-> <<>>,
              message |-> "Failed to process transcript: ENOENT"]
        ELSE IF vttFile = NoFile
        THEN [ok |-> FALSE, transcript |-> <<>>,
              message |-> "No transcript file found. Video may not have subtitles."]
        ELSE IF ~vttFile.readable
        THEN [ok |-> FALSE, transcript |-> <<>>,
              message |-> "Failed to process transcript: EACCES"]
        ELSE [ok |-> TRUE, transcript |-> parseVTT(vttFile.vttContent), message |-> ""]

\* ytdlp.on('close'): the transcript the promise resolves with, or the message
\* of the error it rejects with
onClose(code, listing) ==
    LET vttFile == find(listing.files, {i \in DOMAIN listing.files : isVtt(listing.files[i])}, NoFile)
    IN  IF code # 0
        THEN [ok |-> FALSE, transcript |-> <<>>,
              message |-> "yt-dlp failed with code " \o ToString(code) \o ": "]
        ELSE IF ~listing.exists
        THEN [ok |-> FALSE, transcript |-> <<>>,
              message |-> "Failed to process transcript: ENOENT"]
        ELSE IF vttFile = NoFile
        THEN [ok |-> FALSE, transcript |-> <<>>,
              message |-> "No transcript file found. Video may not have subtitles."]
        ELSE IF ~vttFile.readable
        THEN [ok |-> FALSE, transcript |-> <<>>,
              message |-> "Failed to process transcript: EACCES"]
        ELSE [ok |-> TRUE, transcript |-> parseVTT(vttFile.vttContent), message |-> ""]

\* exports.handler of the downloader variant up to the spawn of the downloader
HandlerDownloader(r, httpMethod, body) ==
    /\ req[r].pc = "idle"
    /\ LET started == [req[r] EXCEPT !.variant = "downloader",
                                     !.httpMethod = httpMethod, !.body = body]
       IN  IF prologue(httpMethod, body) # NoResponse
           THEN /\ Return(r, started, prologue(httpMethod, body))
                /\ UNCHANGED dirs
           ELSE /\ dirs' = mkdirSync(dirs, clock)
                /\ req' = [req EXCEPT ![r] = [started EXCEPT !.pc = "awaitChild",
                                                             !.tempDir = clock,
                                                             !.created = TRUE]]
    /\ UNCHANGED <<Pure, clock>>

\* The downloader process writes a file into its output directory
ChildWrite(r, file) ==
    /\ req[r].pc = "awaitChild"
    /\ ~req[r].wrote
    /\ req[r].tempDir \in DOMAIN dirs
    /\ dirs' = writeFile(dirs, req[r].tempDir, file)
    /\ req' = [req EXCEPT ![r].wrote = TRUE]
    /\ UNCHANGED <<Pure, clock>>

\* ytdlp.on('error'): the promise rejects and the handler answers 500
ChildError(r) ==
    /\ req[r].pc = "awaitChild"
    /\ ~req[r].wrote
    /\ Return(r, [req[r] EXCEPT !.exit = "error"],
              failure("Failed to spawn yt-dlp: ENOENT"))
    /\ UNCHANGED <<Pure, clock, dirs>>

\* ytdlp.on('close') and the rest of the handler
ChildClose(r, code, listing) ==
    /\ req[r].pc = "awaitChild"
    /\ listing \in readdirSync(dirs, req[r].tempDir)
    /\ LET got == [req[r] EXCEPT !.exit = IF code = 0 THEN "zero" ELSE "nonzero",
                                 !.seen = IF code = 0 THEN listing ELSE NoListing]
       IN  IF onClose(code, listing).ok
           THEN /\ dirs' = rmSync(dirs, req[r].tempDir)
                /\ Return(r, [got EXCEPT !.removed = TRUE],
                          success(onClose(code, listing).transcript, req[r].body.url))
           ELSE /\ Return(r, got, failure(onClose(code, listing).message))
                /\ UNCHANGED dirs
    /\ UNCHANGED <<Pure, clock>>

\* Date.now() advances
Tick ==
    /\ clock < MaxClock
    /\ clock' = clock + 1
    /\ UNCHANGED <<Pure, dirs, req>>

ListingsOf(fs) == UNION {readdirSync(fs, d) : d \in DOMAIN fs} \cup {NoListing}

NextHandler ==
    \/ \E r \in Requests, httpMethod \in Methods, body \in Bodies :
           HandlerApi(r, httpMethod, body)
    \/ \E r \in Requests, playerResponse \in PlayerResponses : PlayerEnd(r, playerResponse)
    \/ \E r \in Requests : PlayerError(r)
    \/ \E r \in Requests, transcriptData \in Payloads : TranscriptEnd(r, transcriptData)
    \/ \E r \in Requests : TranscriptError(r)
    \/ \E r \in Requests, httpMethod \in Methods, body \in Bodies :
           HandlerDownloader(r, httpMethod, body)
    \/ \E r \in Requests, readable \in BOOLEAN :
           ChildWrite(r, subtitleFile(req[r].body.url, readable))
    \/ \E r \in Requests : ChildWrite(r, otherFile)
    \/ \E r \in Requests : ChildError(r)
    \/ \E r \in Requests, code \in {0, 1}, listing \in ListingsOf(dirs) :
           ChildClose(r, code, listing)
    \/ Tick

SpecHandler == InitHandler /\ [][NextHandler]_vars

-----------------------------------------------------------------------------
(* Properties of the handler *)

Done(r) == req[r].pc = "done"

\* C1: in the downloader variant, a request that created a scratch directory
\* has removed it when the handler returns its response, on every exit path.
ScratchDirRemovedOnReturn ==
    \A r \in Requests : (Done(r) /\ req[r].created) => req[r].removed

\* C2: OPTIONS is answered with 200, an empty body and the CORS headers; a
\* method that is neither POST nor OPTIONS is answered with 405; only POST
\* requests reach body parsing and extraction.
MethodDispatch ==
    \A r \in Requests :
        Done(r) =>
            /\ req[r].httpMethod = "OPTIONS" =>
                   /\ req[r].response.statusCode = 200
                   /\ req[r].response.kind = "empty"
                   /\ req[r].response.cors
            /\ req[r].httpMethod \notin {"POST", "OPTIONS"} =>
                   req[r].response.statusCode = 405
            /\ req[r].httpMethod # "POST" => (~req[r].requested /\ ~req[r].created)

\* C3: a POST request with a malformed body (not JSON, without url, with an
\* empty url, with a url that is not a platform link) is answered with 400
\* and an error field, and no extraction step is performed.
MalformedBodyIs400 ==
    \A r \in Requests :
        (Done(r) /\ req[r].httpMethod = "POST" /\ req[r].body \in MalformedBodies) =>
            /\ req[r].response.statusCode = 400
            /\ req[r].response.kind = "error"
            /\ req[r].response.error # ""
            /\ ~req[r].requested
            /\ ~req[r].created

\* The subtitle file the close handler picked from the listing it saw
FirstVtt(files) ==
    LET at == {i \in 1..Len(files) :
                  Len(files[i].name) >= 4
                  /\ SubSeq(files[i].name, Len(files[i].name) - 3, Len(files[i].name)) = DotVtt}
    IN  IF at = {} THEN NoFile ELSE files[MinOf(at)]

\* Every stage of the pipeline of request r succeeded
StagesSucceeded(r) ==
    IF req[r].variant = "api"
    THEN /\ req[r].body.url \in {UrlShort, UrlEmbed}
         /\ req[r].playerState = "end"
         /\ req[r].player.parses
         /\ req[r].player.hasCaptions
         /\ EnPrefixAt(req[r].player.captionTracks) # {}
         /\ req[r].payloadState = "end"
         /\ req[r].payload.parses
    ELSE /\ req[r].exit = "zero"
         /\ req[r].seen.exists
         /\ FirstVtt(req[r].seen.files) # NoFile
         /\ FirstVtt(req[r].seen.files).readable

\* The transcript has one entry per event or cue of the whole payload
CompleteTranscript(r) ==
    IF req[r].variant = "api"
    THEN Len(req[r].response.transcript)
             = Len(SelectSeq(EventsOf(req[r].payload), KeptEvent))
    ELSE Len(req[r].response.transcript)
             = Len(EmittingCues(split(FirstVtt(req[r].seen.files).vttContent, <<"\n">>)))

\* C4: the handler answers 200 with success and a transcript only when every
\* stage of the pipeline succeeded; a failure at any stage yields one 500
\* response with error and details and without a transcript; the handler
\* always returns one of its responses and never a partial transcript.
AllOrNothing ==
    \A r \in Requests :
        /\ ~Done(r) => req[r].response = NoResponse
        /\ Done(r) => req[r].response.statusCode \in {200, 400, 405, 500}
        /\ (Done(r) /\ req[r].response.statusCode = 200) =>
               /\ req[r].httpMethod = "POST"
               /\ req[r].body \in WellFormedBodies
               /\ StagesSucceeded(r)
               /\ req[r].response.kind = "success"
               /\ CompleteTranscript(r)
        /\ (Done(r) /\ req[r].httpMethod = "POST" /\ req[r].body \in WellFormedBodies
                /\ ~StagesSucceeded(r)) =>
               /\ req[r].response.statusCode = 500
               /\ req[r].response.kind = "errorDetails"
               /\ req[r].response.error # ""
               /\ req[r].response.details # ""
               /\ req[r].response.transcript = <<>>

\* One request answered 200 with a transcript by the Innertube variant, the
\* other answered 500 after the downloader exited with a non-zero code while
\* a subtitle file was in its directory
SuccessAndFailureAnswered ==
    \E r1, r2 \in Requests :
        /\ Done(r1) /\ req[r1].variant = "api"
        /\ req[r1].response.statusCode = 200
        /\ req[r1].response.transcript # <<>>
        /\ Done(r2) /\ req[r2].variant = "downloader"
        /\ req[r2].exit = "nonzero" /\ req[r2].wrote
        /\ req[r2].response.statusCode = 500

\* C10: two requests of the downloader variant whose handling overlaps use
\* distinct scratch directories.
DistinctScratchDirs ==
    \A r1, r2 \in Requests :
        (r1 # r2 /\ req[r1].pc = "awaitChild" /\ req[r2].pc = "awaitChild") =>
            req[r1].tempDir # req[r2].tempDir

====
